---- MODULE Spec2Model ----
(***************************************************************************)
(* Model of ersilia/api/commands/serve.py: the serve() command.  One serve *)
(* call is a sequential program; pc[c] is its position.  The collaborators *)
(* (ErsiliaModel, SetupRedis, register_model_session) are outside the file *)
(* and are modelled by what serve() hands them and reads back from them;   *)
(* what they report (is_valid, url, session directory, get_apis,           *)
(* _is_amenable) is drawn from small sets.                                 *)
(*                                                                         *)
(* Python's None is the empty tuple and a present value x is <<x>>, so that *)
(* "absent" and "present" values of any type can be compared.              *)
(* max_cache_memory_frac is counted in tenths: 2 is 0.2 and 7 is 0.7.      *)
(***************************************************************************)
EXTENDS Integers, Sequences, FiniteSets, TLC

VARIABLES
    pc,                 \* pc[c]: position of call c in serve()
    req,                \* req[c]: the arguments call c was made with
    output_source,      \* local variable output_source (lines 41-54)
    enable_local_cache, \* parameter enable_local_cache, reassigned at 46, 53
    cache_status,       \* local variable cache_status (lines 42-54)
    mdl,                \* the ErsiliaModel handle of the call (line 56)
    redis_setup,        \* the SetupRedis object of the call (line 64)
    track_runs,         \* local variable track_runs (line 69)
    apis,               \* local variable apis (line 79)
    result,             \* the dictionary returned (lines 89-99)
    err,                \* the exception the call ended with
    registry,           \* the process-wide session registry
    steps,              \* history: the steps call c has taken, in order
    writes,             \* history: registry writes made by call c
    lastReg,            \* history: per key, the directory last handed to
                        \*          register_model_session
    regArgs             \* history: the (key, directory) pairs call c handed
                        \*          to register_model_session

vars == <<pc, req, output_source, enable_local_cache, cache_status, mdl,
          redis_setup, track_runs, apis, result, err, registry, steps,
          writes, lastReg, regArgs>>

None == <<>>
Some(x) == <<x>>

-----------------------------------------------------------------------------
(* Bounds *)

MaxFrac == 9        \* fractions 0.0 .. MaxFrac/10 are tried
MaxApiLen == 2      \* longest list get_apis reports

Calls == {"c1", "c2"}
ModelIds == {"eos1", "eos2"}
Ports == {None, Some(8080)}
UseCases == {"local", "hosted", "self-service", "test"}
Fracs == {None} \cup {Some(f) : f \in 0..MaxFrac}
Dirs == {"dir1", "dir2"}
Urls == {None, Some("http://0.0.0.0:8080")}
ApiNames == {"run", "info", "predict"}
ApiLists == UNION {[1..n -> ApiNames] : n \in 0..MaxApiLen}
ConcApiLists == {<<"run">>, <<"info", "run">>}

-----------------------------------------------------------------------------
(* Program constants *)

FracLo == 2         \* 0.2, in tenths
FracHi == 7         \* 0.7, in tenths

LOCAL_ONLY == "LOCAL_ONLY"
CLOUD_ONLY == "CLOUD_ONLY"
CACHE_ONLY == "CACHE_ONLY"

MsgRange == "Maximum fraction of memory to use by Redis for caching is outside of recommended range (0.2-0.7)."
MsgNotValid == "Model is not valid or not found."
MsgNoUrl == "No URL found. Service unsuccessful."

\* The three failures serve() raises itself are all RuntimeError; they are
\* told apart by their message.  The names follow the error kinds of the
\* design: ConfigurationError, ModelNotFoundError, ServeFailedError.
ConfigurationError == [type |-> "RuntimeError", msg |-> MsgRange, id |-> None]
ModelNotFoundError(id) == [type |-> "RuntimeError", msg |-> MsgNotValid, id |-> Some(id)]
ServeFailedError == [type |-> "RuntimeError", msg |-> MsgNoUrl, id |-> None]
\* an exception raised inside mdl.serve() and passed on unchanged
StartupError == [type |-> "Exception", msg |-> "raised by mdl.serve", id |-> None]
\* an exception raised inside mdl.get_apis() and passed on unchanged
GetApisError == [type |-> "Exception", msg |-> "raised by mdl.get_apis", id |-> None]
\* an exception raised inside redis_setup._is_amenable() and passed on unchanged
AmenableError == [type |-> "Exception", msg |-> "raised by _is_amenable", id |-> None]

-----------------------------------------------------------------------------
(* Requests *)

Request(m, p, t, u, e, l, cl, co, f) ==
    [model |-> m, port |-> p, track |-> t, tracking_use_case |-> u,
     enable_local_cache |-> e, local_cache_only |-> l,
     cloud_cache_only |-> cl, cache_only |-> co, max_cache_memory_frac |-> f]

\* every argument varied, one model identifier
SeqRequests ==
    {Request("eos1", p, t, u, e, l, cl, co, f) :
        p \in Ports, t \in BOOLEAN, u \in UseCases, e \in BOOLEAN,
        l \in BOOLEAN, cl \in BOOLEAN, co \in BOOLEAN, f \in Fracs}

\* the defaults of the signature, both model identifiers, a good and a bad
\* memory fraction
ConcRequests ==
    {Request(m, None, FALSE, "local", TRUE, FALSE, FALSE, FALSE, f) :
        m \in ModelIds, f \in {None, Some(0)}}

-----------------------------------------------------------------------------
(* Pure parts of serve() *)

\* the range check with the lower bound exclusive
InRecommendedRange_LowerExclusive(f) == FracLo < f /\ f <= FracHi

\* line 36: 0.2 <= max_cache_memory_frac <= 0.7, f in tenths
InRecommendedRange(f) == FracLo <= f /\ f <= FracHi

\* lines 35-36: the guard of the raise at line 37
FracRejected(frac) == frac # None /\ ~InRecommendedRange(frac[1])

\* lines 41-42 (enable_local_cache still holds the caller's value)
ResolveInit(e) ==
    [output_source |-> None, enable_local_cache |-> e, cache_status |-> "Disabled"]

\* lines 44-47
StepLocalOnly(r, local_cache_only) ==
    IF local_cache_only
    THEN [output_source |-> Some(LOCAL_ONLY), enable_local_cache |-> TRUE,
          cache_status |-> "Local only"]
    ELSE r

\* the cloud step as an exclusive choice: it yields to an earlier toggle
StepCloudOnly_FirstMatch(r, cloud_cache_only) ==
    IF cloud_cache_only /\ r.output_source = None
    THEN [r EXCEPT !.output_source = Some(CLOUD_ONLY), !.cache_status = "Cloud only"]
    ELSE r

\* the cloud step without its assignment to cache_status
StepCloudOnly_NoStatus(r, cloud_cache_only) ==
    IF cloud_cache_only
    THEN [r EXCEPT !.output_source = Some(CLOUD_ONLY)]
    ELSE r

\* lines 48-50
StepCloudOnly(r, cloud_cache_only) ==
    IF cloud_cache_only
    THEN [r EXCEPT !.output_source = Some(CLOUD_ONLY), !.cache_status = "Cloud only"]
    ELSE r

\* lines 51-54
StepCacheOnly(r, cache_only) ==
    IF cache_only
    THEN [output_source |-> Some(CACHE_ONLY), enable_local_cache |-> TRUE,
          cache_status |-> "Hybrid (local & cloud)"]
    ELSE r

\* lines 41-54, in statement order
ResolveCache(q) ==
    StepCacheOnly(
        StepCloudOnly(
            StepLocalOnly(ResolveInit(q.enable_local_cache), q.local_cache_only),
            q.cloud_cache_only),
        q.cache_only)

\* the use case sent whatever track says
TrackRunsOf_Always(track, tracking_use_case) == Some(tracking_use_case)

\* line 69
TrackRunsOf(track, tracking_use_case) ==
    IF track THEN Some(tracking_use_case) ELSE None

\* lines 83-86: the loop over apis, appending every api other than "run"
RECURSIVE AppendNonRun(_, _, _)
AppendNonRun(list, i, acc) ==
    IF i > Len(list) THEN acc
    ELSE AppendNonRun(list, i + 1,
                      IF list[i] # "run" THEN Append(acc, list[i]) ELSE acc)

\* "nothing besides run" reported as absent, whatever the list was
AdditionalApis_EmptyIsNone(list) ==
    IF AppendNonRun(list, 1, <<>>) # <<>>
    THEN Some(AppendNonRun(list, 1, <<>>))
    ELSE None

\* lines 81-86
AdditionalApis(list) ==
    IF list # <<"run">> THEN Some(AppendNonRun(list, 1, <<>>)) ELSE None

\* the tracking label taken from the use case, which is never empty
TrackingField_OfUseCase(track) == "Enabled"

\* line 96
TrackingField(track) == IF track THEN "Enabled" ELSE "Disabled"

\* line 95
LocalCacheField(amenable) == IF amenable THEN "Enabled" ELSE "Disabled"

\* the result with "Session" filled from the URL
ResultDict_SessionFromUrl(m, status, amenable, track, list) ==
    ("Model ID" :> m.model_id) @@
    ("URL" :> m.url) @@
    ("SRV" :> m.scl) @@
    ("Session" :> m.url) @@
    ("Cache Fetching Mode" :> status) @@
    ("Local Cache" :> LocalCacheField(amenable)) @@
    ("Tracking" :> TrackingField(track)) @@
    ("Default API" :> "run") @@
    ("Additional APIs" :> AdditionalApis(list))

\* lines 89-99
ResultDict(m, status, amenable, track, list) ==
    ("Model ID" :> m.model_id) @@
    ("URL" :> m.url) @@
    ("SRV" :> m.scl) @@
    ("Session" :> m.session_dir) @@
    ("Cache Fetching Mode" :> status) @@
    ("Local Cache" :> LocalCacheField(amenable)) @@
    ("Tracking" :> TrackingField(track)) @@
    ("Default API" :> "run") @@
    ("Additional APIs" :> AdditionalApis(list))

-----------------------------------------------------------------------------
(* Collaborators, as serve() uses them *)

\* ErsiliaModel(model, output_source=, preferred_port=, cache=, maxmemory=):
\* the handle keeps what it was given; url, session and scl are set by its
\* serve().  valid is what is_valid() has answered, served_with the
\* track_runs argument of every serve() invocation it has received.
ErsiliaModel(model, src, port, cache, maxmemory) ==
    [model_id |-> model, output_source |-> src, preferred_port |-> port,
     cache |-> cache, maxmemory |-> maxmemory,
     url |-> None, session_dir |-> None, scl |-> None,
     valid |-> None, served_with |-> <<>>]

\* SetupRedis(enable_local_cache, max_cache_memory_frac)
\* amenable is what _is_amenable()[0] has answered
SetupRedis(cache, maxmemory) ==
    [cache |-> cache, maxmemory |-> maxmemory, amenable |-> None]

\* register_model_session(model_id, session_dir): upsert keyed by model_id
register_model_session(reg, model_id, session_dir) ==
    [reg EXCEPT ![model_id] = Some(session_dir)]

-----------------------------------------------------------------------------
(* State *)

Init ==
    /\ pc = [c \in Calls |-> "idle"]
    /\ req = [c \in Calls |-> None]
    /\ output_source = [c \in Calls |-> None]
    /\ enable_local_cache = [c \in Calls |-> FALSE]
    /\ cache_status = [c \in Calls |-> ""]
    /\ mdl = [c \in Calls |-> None]
    /\ redis_setup = [c \in Calls |-> None]
    /\ track_runs = [c \in Calls |-> None]
    /\ apis = [c \in Calls |-> <<>>]
    /\ result = [c \in Calls |-> None]
    /\ err = [c \in Calls |-> None]
    /\ registry = [m \in ModelIds |-> None]
    /\ steps = [c \in Calls |-> <<>>]
    /\ writes = [c \in Calls |-> 0]
    /\ lastReg = [m \in ModelIds |-> None]
    /\ regArgs = [c \in Calls |-> <<>>]

Req(c) == req[c][1]
Mdl(c) == mdl[c][1]

Goto(c, label) == pc' = [pc EXCEPT ![c] = label]
Did(c, step) == steps' = [steps EXCEPT ![c] = Append(@, step)]

\* raise e: the call ends, nothing after the raise runs
Raise(c, e) ==
    /\ Goto(c, "error")
    /\ err' = [err EXCEPT ![c] = Some(e)]

-----------------------------------------------------------------------------
(* Steps of serve() *)

\* serve(model, port, track, ...) is called with the arguments q
Call(c, Requests) ==
    /\ pc[c] = "idle"
    /\ \E q \in Requests :
        /\ req' = [req EXCEPT ![c] = Some(q)]
        /\ enable_local_cache' = [enable_local_cache EXCEPT ![c] = q.enable_local_cache]
    /\ Goto(c, "validate")
    /\ UNCHANGED <<output_source, cache_status, mdl, redis_setup, track_runs,
                   apis, result, err, registry, steps, writes, lastReg, regArgs>>

\* lines 35-39
Validate(c) ==
    /\ pc[c] = "validate"
    /\ Did(c, "validate")
    /\ IF FracRejected(Req(c).max_cache_memory_frac)
       THEN Raise(c, ConfigurationError)
       ELSE Goto(c, "resolve") /\ UNCHANGED err
    /\ UNCHANGED <<req, output_source, enable_local_cache, cache_status, mdl,
                   redis_setup, track_runs, apis, result, registry, writes, lastReg, regArgs>>

\* lines 41-54
Resolve(c) ==
    /\ pc[c] = "resolve"
    /\ Did(c, "resolve")
    /\ LET r == ResolveCache(Req(c)) IN
        /\ output_source' = [output_source EXCEPT ![c] = r.output_source]
        /\ enable_local_cache' = [enable_local_cache EXCEPT ![c] = r.enable_local_cache]
        /\ cache_status' = [cache_status EXCEPT ![c] = r.cache_status]
    /\ Goto(c, "construct")
    /\ UNCHANGED <<req, mdl, redis_setup, track_runs, apis, result, err,
                   registry, writes, lastReg, regArgs>>

\* the handle built with the caller's enable_local_cache, not the resolved
Construct_BaselineFlag(c) ==
    /\ pc[c] = "construct"
    /\ Did(c, "construct")
    /\ mdl' = [mdl EXCEPT ![c] =
                Some(ErsiliaModel(Req(c).model, output_source[c], Req(c).port,
                                  Req(c).enable_local_cache,
                                  Req(c).max_cache_memory_frac))]
    /\ Goto(c, "setup_redis")
    /\ UNCHANGED <<req, output_source, enable_local_cache, cache_status,
                   redis_setup, track_runs, apis, result, err, registry,
                   writes, lastReg, regArgs>>

\* lines 56-62
Construct(c) ==
    /\ pc[c] = "construct"
    /\ Did(c, "construct")
    /\ mdl' = [mdl EXCEPT ![c] =
                Some(ErsiliaModel(Req(c).model, output_source[c], Req(c).port,
                                  enable_local_cache[c],
                                  Req(c).max_cache_memory_frac))]
    /\ Goto(c, "setup_redis")
    /\ UNCHANGED <<req, output_source, enable_local_cache, cache_status,
                   redis_setup, track_runs, apis, result, err, registry,
                   writes, lastReg, regArgs>>

\* the cache backend set up and the model started with the validity check
\* left out
ConfigureRedis_SkipValid(c) ==
    /\ pc[c] = "setup_redis"
    /\ Did(c, "setup_redis")
    /\ redis_setup' = [redis_setup EXCEPT ![c] =
                Some(SetupRedis(enable_local_cache[c], Req(c).max_cache_memory_frac))]
    /\ Goto(c, "track_runs")
    /\ UNCHANGED <<req, output_source, enable_local_cache, cache_status, mdl,
                   track_runs, apis, result, err, registry, writes, lastReg, regArgs>>

\* line 64
ConfigureRedis(c) ==
    /\ pc[c] = "setup_redis"
    /\ Did(c, "setup_redis")
    /\ redis_setup' = [redis_setup EXCEPT ![c] =
                Some(SetupRedis(enable_local_cache[c], Req(c).max_cache_memory_frac))]
    /\ Goto(c, "is_valid")
    /\ UNCHANGED <<req, output_source, enable_local_cache, cache_status, mdl,
                   track_runs, apis, result, err, registry, writes, lastReg, regArgs>>

\* the validity check without its raise
CheckValid_NoRaise(c) ==
    /\ pc[c] = "is_valid"
    /\ Did(c, "is_valid")
    /\ \E valid \in BOOLEAN :
        mdl' = [mdl EXCEPT ![c] = Some([Mdl(c) EXCEPT !.valid = Some(valid)])]
    /\ Goto(c, "track_runs")
    /\ UNCHANGED <<req, output_source, enable_local_cache, cache_status,
                   redis_setup, track_runs, apis, result, err, registry,
                   writes, lastReg, regArgs>>

\* lines 66-67; what mdl.is_valid() answers is the collaborator's choice
CheckValid(c) ==
    /\ pc[c] = "is_valid"
    /\ Did(c, "is_valid")
    /\ \E valid \in BOOLEAN :
        /\ mdl' = [mdl EXCEPT ![c] = Some([Mdl(c) EXCEPT !.valid = Some(valid)])]
        /\ IF ~valid
           THEN Raise(c, ModelNotFoundError(Mdl(c).model_id))
           ELSE Goto(c, "track_runs") /\ UNCHANGED err
    /\ UNCHANGED <<req, output_source, enable_local_cache, cache_status,
                   redis_setup, track_runs, apis, result, registry, writes, lastReg, regArgs>>

\* line 69
SetTrackRuns(c) ==
    /\ pc[c] = "track_runs"
    /\ Did(c, "track_runs")
    /\ track_runs' = [track_runs EXCEPT ![c] =
                        TrackRunsOf(Req(c).track, Req(c).tracking_use_case)]
    /\ Goto(c, "serve")
    /\ UNCHANGED <<req, output_source, enable_local_cache, cache_status, mdl,
                   redis_setup, apis, result, err, registry, writes, lastReg, regArgs>>

\* startup shared: not invoked when another call has already started the
\* same model
ServeCall_Dedup(c) ==
    /\ pc[c] = "serve"
    /\ Did(c, "serve")
    /\ mdl' = [mdl EXCEPT ![c] =
                IF \E d \in Calls \ {c} :
                       /\ mdl[d] # None
                       /\ Mdl(d).model_id = Mdl(c).model_id
                       /\ Mdl(d).served_with # <<>>
                THEN mdl[c]
                ELSE Some([Mdl(c) EXCEPT !.served_with = Append(@, track_runs[c])])]
    /\ Goto(c, "serving")
    /\ UNCHANGED <<req, output_source, enable_local_cache, cache_status,
                   redis_setup, track_runs, apis, result, err, registry,
                   writes, lastReg, regArgs>>

\* line 71: mdl.serve(track_runs=track_runs) is entered; the caller is
\* suspended until the collaborator returns or raises
ServeCall(c) ==
    /\ pc[c] = "serve"
    /\ Did(c, "serve")
    /\ mdl' = [mdl EXCEPT ![c] =
                Some([Mdl(c) EXCEPT !.served_with = Append(@, track_runs[c])])]
    /\ Goto(c, "serving")
    /\ UNCHANGED <<req, output_source, enable_local_cache, cache_status,
                   redis_setup, track_runs, apis, result, err, registry,
                   writes, lastReg, regArgs>>

\* line 71: mdl.serve returns; url, session and scl are what the
\* collaborator made of them
ServeReturn(c, SessionDirs) ==
    /\ pc[c] = "serving"
    /\ \E u \in Urls, d \in SessionDirs :
        mdl' = [mdl EXCEPT ![c] =
                 Some([Mdl(c) EXCEPT !.url = u, !.session_dir = Some(d),
                                     !.scl = Some("srv")])]
    /\ Goto(c, "check_url")
    /\ UNCHANGED <<req, output_source, enable_local_cache, cache_status,
                   redis_setup, track_runs, apis, result, err, registry,
                   steps, writes, lastReg, regArgs>>

\* a failed startup caught and the startup tried again
ServeRaise_Retry(c) ==
    /\ pc[c] = "serving"
    /\ Goto(c, "serve")
    /\ UNCHANGED <<req, output_source, enable_local_cache, cache_status, mdl,
                   redis_setup, track_runs, apis, result, err, registry, steps,
                   writes, lastReg, regArgs>>

\* line 71: mdl.serve raises; the exception leaves serve() as it is
ServeRaise(c) ==
    /\ pc[c] = "serving"
    /\ Raise(c, StartupError)
    /\ UNCHANGED <<req, output_source, enable_local_cache, cache_status, mdl,
                   redis_setup, track_runs, apis, result, registry, steps,
                   writes, lastReg, regArgs>>

\* the URL check as a warning: the call goes on to register
CheckUrl_NoRaise(c) ==
    /\ pc[c] = "check_url"
    /\ Did(c, "check_url")
    /\ Goto(c, "register")
    /\ UNCHANGED <<req, output_source, enable_local_cache, cache_status, mdl,
                   redis_setup, track_runs, apis, result, err, registry,
                   writes, lastReg, regArgs>>

\* the URL check as a wait: the call sits there until a URL shows up
CheckUrl_WaitForUrl(c) ==
    /\ pc[c] = "check_url"
    /\ Mdl(c).url # None
    /\ Did(c, "check_url")
    /\ Goto(c, "register")
    /\ UNCHANGED <<req, output_source, enable_local_cache, cache_status, mdl,
                   redis_setup, track_runs, apis, result, err, registry,
                   writes, lastReg, regArgs>>

\* lines 73-74
CheckUrl(c) ==
    /\ pc[c] = "check_url"
    /\ Did(c, "check_url")
    /\ IF Mdl(c).url = None
       THEN Raise(c, ServeFailedError)
       ELSE Goto(c, "register") /\ UNCHANGED err
    /\ UNCHANGED <<req, output_source, enable_local_cache, cache_status, mdl,
                   redis_setup, track_runs, apis, result, registry, writes, lastReg, regArgs>>

\* registration left out when the identifier already has an entry
Register_SkipExisting(c) ==
    /\ pc[c] = "register"
    /\ Did(c, "register")
    /\ registry' = IF registry[Mdl(c).model_id] = None
                   THEN register_model_session(registry, Mdl(c).model_id,
                                               Mdl(c).session_dir[1])
                   ELSE registry
    /\ writes' = [writes EXCEPT ![c] = @ + 1]
    /\ lastReg' = [lastReg EXCEPT ![Mdl(c).model_id] = Mdl(c).session_dir]
    /\ regArgs' = [regArgs EXCEPT ![c] =
                      Append(@, <<Mdl(c).model_id, Mdl(c).session_dir[1]>>)]
    /\ Goto(c, "get_apis")
    /\ UNCHANGED <<req, output_source, enable_local_cache, cache_status, mdl,
                   redis_setup, track_runs, apis, result, err>>

\* line 76
Register(c) ==
    /\ pc[c] = "register"
    /\ Did(c, "register")
    /\ registry' = register_model_session(registry, Mdl(c).model_id,
                                          Mdl(c).session_dir[1])
    /\ writes' = [writes EXCEPT ![c] = @ + 1]
    /\ lastReg' = [lastReg EXCEPT ![Mdl(c).model_id] = Mdl(c).session_dir]
    /\ regArgs' = [regArgs EXCEPT ![c] =
                      Append(@, <<Mdl(c).model_id, Mdl(c).session_dir[1]>>)]
    /\ Goto(c, "get_apis")
    /\ UNCHANGED <<req, output_source, enable_local_cache, cache_status, mdl,
                   redis_setup, track_runs, apis, result, err>>

\* line 79; mdl.get_apis() reports a list, or raises and the exception
\* leaves serve() as it is (the registry write of line 76 has been made)
GetApis(c, Lists) ==
    /\ pc[c] = "get_apis"
    /\ Did(c, "get_apis")
    /\ \/ /\ \E list \in Lists : apis' = [apis EXCEPT ![c] = list]
          /\ Goto(c, "assemble")
          /\ UNCHANGED err
       \/ /\ Raise(c, GetApisError)
          /\ UNCHANGED apis
    /\ UNCHANGED <<req, output_source, enable_local_cache, cache_status, mdl,
                   redis_setup, track_runs, result, registry, writes, lastReg,
                   regArgs>>

\* "Local Cache" reported from the resolved enable_local_cache flag
Assemble_LocalCacheFromFlag(c) ==
    /\ pc[c] = "assemble"
    /\ Did(c, "assemble")
    /\ \/ /\ \E amenable \in BOOLEAN :
             /\ redis_setup' = [redis_setup EXCEPT ![c] =
                    Some([redis_setup[c][1] EXCEPT !.amenable = Some(amenable)])]
             /\ result' = [result EXCEPT ![c] =
                    Some(ResultDict(Mdl(c), cache_status[c], enable_local_cache[c],
                                    Req(c).track, apis[c]))]
          /\ Goto(c, "done")
          /\ UNCHANGED err
       \/ /\ Raise(c, AmenableError)
          /\ UNCHANGED <<redis_setup, result>>
    /\ UNCHANGED <<req, output_source, enable_local_cache, cache_status, mdl,
                   track_runs, apis, registry, writes, lastReg, regArgs>>

\* lines 81-99; redis_setup._is_amenable()[0] is the collaborator's answer,
\* or _is_amenable() raises at line 95 and no dictionary is returned
Assemble(c) ==
    /\ pc[c] = "assemble"
    /\ Did(c, "assemble")
    /\ \/ /\ \E amenable \in BOOLEAN :
             /\ redis_setup' = [redis_setup EXCEPT ![c] =
                    Some([redis_setup[c][1] EXCEPT !.amenable = Some(amenable)])]
             /\ result' = [result EXCEPT ![c] =
                    Some(ResultDict(Mdl(c), cache_status[c], amenable,
                                    Req(c).track, apis[c]))]
          /\ Goto(c, "done")
          /\ UNCHANGED err
       \/ /\ Raise(c, AmenableError)
          /\ UNCHANGED <<redis_setup, result>>
    /\ UNCHANGED <<req, output_source, enable_local_cache, cache_status, mdl,
                   track_runs, apis, registry, writes, lastReg, regArgs>>

\* the call is over (returned or raised); its frame is gone, the registry stays
Return(c) ==
    /\ pc[c] \in {"done", "error"}
    /\ Goto(c, "idle")
    /\ req' = [req EXCEPT ![c] = None]
    /\ output_source' = [output_source EXCEPT ![c] = None]
    /\ enable_local_cache' = [enable_local_cache EXCEPT ![c] = FALSE]
    /\ cache_status' = [cache_status EXCEPT ![c] = ""]
    /\ mdl' = [mdl EXCEPT ![c] = None]
    /\ redis_setup' = [redis_setup EXCEPT ![c] = None]
    /\ track_runs' = [track_runs EXCEPT ![c] = None]
    /\ apis' = [apis EXCEPT ![c] = <<>>]
    /\ result' = [result EXCEPT ![c] = None]
    /\ err' = [err EXCEPT ![c] = None]
    /\ steps' = [steps EXCEPT ![c] = <<>>]
    /\ writes' = [writes EXCEPT ![c] = 0]
    /\ regArgs' = [regArgs EXCEPT ![c] = <<>>]
    /\ UNCHANGED <<registry, lastReg>>

-----------------------------------------------------------------------------
(* Specifications *)

\* concurrent calls, for both model identifiers
Next ==
    \E c \in Calls :
        \/ Call(c, ConcRequests)
        \/ Validate(c)
        \/ Resolve(c)
        \/ Construct(c)
        \/ ConfigureRedis(c)
        \/ CheckValid(c)
        \/ SetTrackRuns(c)
        \/ ServeCall(c)
        \/ ServeReturn(c, Dirs)
        \/ ServeRaise(c)
        \/ CheckUrl(c)
        \/ Register(c)
        \/ GetApis(c, ConcApiLists)
        \/ Assemble(c)
        \/ Return(c)

Spec == Init /\ [][Next]_vars

\* the statements of serve() itself: the call runs them without waiting
OwnStep(c) ==
    \/ Validate(c)
    \/ Resolve(c)
    \/ Construct(c)
    \/ ConfigureRedis(c)
    \/ CheckValid(c)
    \/ SetTrackRuns(c)
    \/ ServeCall(c)
    \/ CheckUrl(c)
    \/ Register(c)
    \/ GetApis(c, ConcApiLists)
    \/ Assemble(c)

\* the collaborator ends mdl.serve, by returning or by raising
StartupEnds(c) == ServeReturn(c, Dirs) \/ ServeRaise(c)

\* a started call keeps running its own statements, and mdl.serve
\* eventually returns or fails
SpecFair ==
    /\ Spec
    /\ \A c \in Calls : WF_vars(OwnStep(c)) /\ WF_vars(StartupEnds(c))

\* one call at a time, every argument varied
NextSeq ==
    \/ Call("c1", SeqRequests)
    \/ Validate("c1")
    \/ Resolve("c1")
    \/ Construct("c1")
    \/ ConfigureRedis("c1")
    \/ CheckValid("c1")
    \/ SetTrackRuns("c1")
    \/ ServeCall("c1")
    \/ ServeReturn("c1", Dirs)
    \/ ServeRaise("c1")
    \/ CheckUrl("c1")
    \/ Register("c1")
    \/ GetApis("c1", ApiLists)
    \/ Assemble("c1")
    \/ Return("c1")

SpecSeq == Init /\ [][NextSeq]_vars

-----------------------------------------------------------------------------
(* Properties *)

Took(c, step) == \E i \in 1..Len(steps[c]) : steps[c][i] = step
LastStep(c) == IF steps[c] = <<>> THEN "" ELSE steps[c][Len(steps[c])]

\* C1: for every combination of local_cache_only, cloud_cache_only,
\* cache_only and the baseline enable_local_cache, what serve() has resolved
\* is: cache_only -> hybrid, "Hybrid (local & cloud)", enabled; else
\* cloud_cache_only -> cloud-only, "Cloud only", enabled iff local_cache_only
\* or the baseline; else local_cache_only -> local-only, "Local only",
\* enabled; else unset, "Disabled", the baseline.  Resolution raises nothing.
C1_CacheResolution ==
    \A c \in Calls :
        Took(c, "resolve") =>
            LET q == Req(c) IN
            /\ IF q.cache_only
               THEN /\ output_source[c] = Some(CACHE_ONLY)
                    /\ cache_status[c] = "Hybrid (local & cloud)"
                    /\ enable_local_cache[c] = TRUE
               ELSE IF q.cloud_cache_only
               THEN /\ output_source[c] = Some(CLOUD_ONLY)
                    /\ cache_status[c] = "Cloud only"
                    /\ enable_local_cache[c] =
                          (IF q.local_cache_only THEN TRUE ELSE q.enable_local_cache)
               ELSE IF q.local_cache_only
               THEN /\ output_source[c] = Some(LOCAL_ONLY)
                    /\ cache_status[c] = "Local only"
                    /\ enable_local_cache[c] = TRUE
               ELSE /\ output_source[c] = None
                    /\ cache_status[c] = "Disabled"
                    /\ enable_local_cache[c] = q.enable_local_cache
            /\ LastStep(c) = "resolve" => (pc[c] = "construct" /\ err[c] = None)

\* local-only and cloud-only both set, baseline off: cloud wins the source,
\* the flag stays as local-only set it
C1_Witness ==
    \E c \in Calls :
        /\ Took(c, "resolve")
        /\ Req(c).local_cache_only /\ Req(c).cloud_cache_only
        /\ ~Req(c).cache_only /\ ~Req(c).enable_local_cache
        /\ cache_status[c] = "Cloud only"
        /\ enable_local_cache[c] = TRUE

\* C2: a call gets past validation iff max_cache_memory_frac is absent or
\* within [0.2, 0.7], bounds included; otherwise it ends with the range
\* error, and then no handle exists, the cache backend is not configured,
\* mdl.serve was not invoked and the call has not written the registry.
C2_Validation ==
    \A c \in Calls :
        Took(c, "validate") =>
            LET f == Req(c).max_cache_memory_frac
                ok == f = None \/ (2 <= f[1] /\ f[1] <= 7)
            IN  /\ ok <=> err[c] # Some(ConfigurationError)
                /\ ok /\ LastStep(c) = "validate" => pc[c] = "resolve"
                /\ ~ok => /\ pc[c] = "error"
                          /\ steps[c] = <<"validate">>
                          /\ mdl[c] = None
                          /\ redis_setup[c] = None
                          /\ writes[c] = 0
                          /\ result[c] = None

\* 0.8 is rejected and nothing has been built
C2_Witness ==
    \E c \in Calls :
        /\ pc[c] = "error"
        /\ Req(c).max_cache_memory_frac = Some(8)
        /\ err[c] = Some(ConfigurationError)
        /\ mdl[c] = None /\ redis_setup[c] = None

\* both bounds pass
C2_WitnessBounds ==
    \E c \in Calls :
        /\ pc[c] = "resolve"
        /\ Req(c).max_cache_memory_frac \in {Some(2), Some(7)}

\* C10: once resolved, the status label is determined by the resolved
\* source alone (unset "Disabled", local-only "Local only", cloud-only
\* "Cloud only", hybrid "Hybrid (local & cloud)"), and the source is one of
\* these four values.
C10_StatusOfSource ==
    \A c \in Calls :
        Took(c, "resolve") =>
            /\ output_source[c] \in
                 {None, Some(LOCAL_ONLY), Some(CLOUD_ONLY), Some(CACHE_ONLY)}
            /\ cache_status[c] =
                 (CASE output_source[c] = None -> "Disabled"
                    [] output_source[c] = Some(LOCAL_ONLY) -> "Local only"
                    [] output_source[c] = Some(CLOUD_ONLY) -> "Cloud only"
                    [] output_source[c] = Some(CACHE_ONLY) -> "Hybrid (local & cloud)")

\* the source the cloud step overwrote, with the flag the local step set
C10_Witness ==
    \E c \in Calls :
        /\ Took(c, "resolve")
        /\ Req(c).local_cache_only /\ Req(c).cloud_cache_only /\ ~Req(c).cache_only
        /\ output_source[c] = Some(CLOUD_ONLY)
        /\ cache_status[c] = "Cloud only"
        /\ pc[c] = "done"

\* C3: if mdl.is_valid() answered false, the call has ended with the
\* "not valid or not found" error naming the requested identifier, mdl.serve
\* was never invoked in the call, and the call has not written the registry.
C3_InvalidModel ==
    \A c \in Calls :
        (mdl[c] # None /\ Mdl(c).valid = Some(FALSE)) =>
            /\ pc[c] = "error"
            /\ err[c] # None
            /\ err[c][1].type = "RuntimeError"
            /\ err[c][1].msg = MsgNotValid
            /\ err[c][1].id = Some(Req(c).model)
            /\ Mdl(c).served_with = <<>>
            /\ ~Took(c, "serve")
            /\ writes[c] = 0
            /\ result[c] = None

\* an invalid model met while the registry already holds a session
C3_Witness ==
    \E c \in Calls :
        /\ pc[c] = "error"
        /\ mdl[c] # None
        /\ Mdl(c).valid = Some(FALSE)
        /\ Req(c).model = "eos2"
        /\ registry["eos2"] = Some("dir1")

\* C4: if mdl.serve returned and mdl.url is None at the check, the call has
\* ended with the "No URL found" error, there is no result, and the call has
\* not written the registry; a call that has written the registry has
\* passed the URL check with a URL.
C4_NoUrl ==
    \A c \in Calls :
        /\ (Took(c, "check_url") /\ Mdl(c).url = None) =>
              /\ pc[c] = "error"
              /\ err[c] = Some(ServeFailedError)
              /\ result[c] = None
              /\ writes[c] = 0
        /\ writes[c] > 0 =>
              /\ Took(c, "check_url")
              /\ Mdl(c).url # None
              /\ steps[c][Len(steps[c])] # "check_url"

\* mdl.serve was invoked and returned, no URL: the call failed
C4_Witness ==
    \E c \in Calls :
        /\ pc[c] = "error"
        /\ mdl[c] # None
        /\ Len(Mdl(c).served_with) = 1
        /\ Mdl(c).session_dir # None
        /\ Mdl(c).url = None
        /\ err[c] = Some(ServeFailedError)

Pos(c, step) == CHOOSE i \in 1..Len(steps[c]) : steps[c][i] = step
Once(c, step) == Cardinality({i \in 1..Len(steps[c]) : steps[c][i] = step}) <= 1
\* the steps of call c that are listed in order occur at most once, each
\* after all those listed before it
InOrder(c, order) ==
    \A j \in 1..Len(order) :
        /\ Once(c, order[j])
        /\ Took(c, order[j]) =>
              \A i \in 1..(j - 1) :
                  Took(c, order[i]) /\ Pos(c, order[i]) < Pos(c, order[j])

\* C5 as stated: validation, cache resolution, cache backend configuration,
\* model handle construction and startup, registration, reporting, in that
\* order - the cache backend configured before the handle is constructed.
C5_OrderAsStated ==
    \A c \in Calls :
        InOrder(c, <<"validate", "resolve", "setup_redis", "construct",
                     "serve", "register", "get_apis", "assemble">>)

\* C5: the steps of a call occur in the order validation, cache resolution,
\* model handle construction, cache backend configuration, validity check,
\* model startup, URL check, registration, reporting; the cache backend is
\* configured after the handle is constructed and before it is started.
C5_Order ==
    \A c \in Calls :
        InOrder(c, <<"validate", "resolve", "construct", "setup_redis",
                     "is_valid", "track_runs", "serve", "check_url",
                     "register", "get_apis", "assemble">>)

\* a call that ran to its result
C5_Witness ==
    \E c \in Calls :
        /\ pc[c] = "done"
        /\ Took(c, "setup_redis") /\ Took(c, "construct")
        /\ Pos(c, "construct") < Pos(c, "setup_redis")
        /\ Took(c, "assemble")

\* C6: "Default API" is "run"; "Additional APIs" is None iff the list
\* get_apis reported is exactly ["run"], and for every other list it is the
\* list of the names other than "run" in their original order.
C6_AdditionalApis ==
    \A c \in Calls :
        pc[c] = "done" =>
            LET r == result[c][1]
                others == SelectSeq(apis[c], LAMBDA a : a # "run")
            IN  /\ r["Default API"] = "run"
                /\ r["Additional APIs"] = None <=> apis[c] = <<"run">>
                /\ apis[c] # <<"run">> =>
                      /\ r["Additional APIs"] = Some(others)
                      /\ \A i \in 1..Len(others) : others[i] # "run"

\* a list without "run" at its head, two other names in the model's order
C6_Witness ==
    \E c \in Calls :
        /\ pc[c] = "done"
        /\ apis[c] = <<"predict", "info">>
        /\ result[c][1]["Additional APIs"] = Some(<<"predict", "info">>)

\* the empty list and the list of "run" twice give an empty list, not None
C6_WitnessEmpty ==
    \E c \in Calls :
        /\ pc[c] = "done"
        /\ apis[c] \in {<<>>, <<"run", "run">>}
        /\ result[c][1]["Additional APIs"] = Some(<<>>)

\* C8: the result's "Tracking" is "Enabled" iff track was true and
\* "Disabled" otherwise, for every tracking use case: the field is a
\* function of track alone, so calls that differ only in the use case
\* carry the same "Tracking".
C8_TrackingField ==
    \A c \in Calls :
        pc[c] = "done" =>
            /\ result[c][1]["Tracking"] = "Enabled" <=> Req(c).track
            /\ result[c][1]["Tracking"] = "Disabled" <=> ~Req(c).track

\* tracking off with a use case other than the default
C8_Witness ==
    \E c \in Calls :
        /\ pc[c] = "done"
        /\ ~Req(c).track
        /\ Req(c).tracking_use_case = "hosted"
        /\ result[c][1]["Tracking"] = "Disabled"

\* C9: mdl.serve receives track_runs = the caller's tracking use case when
\* track is true and None when track is false.
C9_TrackRuns ==
    \A c \in Calls :
        (mdl[c] # None /\ Mdl(c).served_with # <<>>) =>
            /\ Len(Mdl(c).served_with) = 1
            /\ Mdl(c).served_with[1] =
                 (IF Req(c).track THEN Some(Req(c).tracking_use_case) ELSE None)

\* tracking off: no use case is sent although one was given
C9_Witness ==
    \E c \in Calls :
        /\ mdl[c] # None
        /\ ~Req(c).track
        /\ Req(c).tracking_use_case = "self-service"
        /\ Mdl(c).served_with = <<None>>

\* tracking on: the use case is sent as given
C9_WitnessOn ==
    \E c \in Calls :
        /\ mdl[c] # None
        /\ Req(c).track
        /\ Req(c).tracking_use_case = "test"
        /\ Mdl(c).served_with = <<Some("test")>>

\* the registry holds, for every identifier, the directory of the call
\* that registered that identifier last (nothing if none did)
RegistryIsLastRegistration ==
    \A m \in ModelIds : registry[m] = lastReg[m]

\* a step of call c changes at most the entry of the identifier c serves,
\* and never removes an entry
OnlyOwnEntry ==
    \A c \in Calls : \A m \in ModelIds :
        pc'[c] # pc[c] =>
            /\ (req[c] = None \/ Req(c).model # m) => registry'[m] = registry[m]
            /\ registry[m] # None => registry'[m] # None

\* C7: with registration an atomic upsert keyed by the identifier, in every
\* interleaving the registry maps each identifier to the session directory
\* of the call that registered it last (an existing entry never makes a
\* call skip its registration), and a call for one identifier never changes
\* or removes the entry of another.
C7_LastRegistrationWins ==
    /\ []RegistryIsLastRegistration
    /\ [][OnlyOwnEntry]_vars

\* two calls for the same identifier in flight, both registered, with
\* different directories; the entry of the other identifier is still there
C7_Witness ==
    /\ pc["c1"] = "get_apis"
    /\ pc["c2"] = "assemble"
    /\ Req("c1").model = "eos1" /\ Req("c2").model = "eos1"
    /\ Mdl("c1").session_dir = Some("dir2")
    /\ Mdl("c2").session_dir = Some("dir1")
    /\ registry["eos1"] \in {Some("dir1"), Some("dir2")}
    /\ registry["eos2"] = Some("dir2")

\* C11: the result's "Local Cache" is "Enabled" iff _is_amenable()[0] was
\* true, whatever the resolved enable_local_cache flag and the "Cache
\* Fetching Mode" label are; the fields are reported as they are, also when
\* they disagree.
C11_LocalCacheField ==
    \A c \in Calls :
        pc[c] = "done" =>
            LET r == result[c][1] IN
            /\ r["Local Cache"] = "Enabled" <=> redis_setup[c][1].amenable = Some(TRUE)
            /\ r["Local Cache"] = "Disabled" <=> redis_setup[c][1].amenable = Some(FALSE)
            /\ r["Cache Fetching Mode"] = cache_status[c]
            /\ redis_setup[c][1].cache = enable_local_cache[c]

\* local caching resolved to enabled (hybrid mode), backend not amenable
C11_Witness ==
    \E c \in Calls :
        /\ pc[c] = "done"
        /\ enable_local_cache[c] = TRUE
        /\ result[c][1]["Cache Fetching Mode"] = "Hybrid (local & cloud)"
        /\ result[c][1]["Local Cache"] = "Disabled"

\* fetching mode "Disabled", local caching off, backend amenable
C11_WitnessModeDisabled ==
    \E c \in Calls :
        /\ pc[c] = "done"
        /\ enable_local_cache[c] = FALSE
        /\ result[c][1]["Cache Fetching Mode"] = "Disabled"
        /\ result[c][1]["Local Cache"] = "Enabled"

\* the four failures up to the URL check
EarlyFailures(c) ==
    {Some(ConfigurationError), Some(ModelNotFoundError(Req(c).model)),
     Some(StartupError), Some(ServeFailedError)}

\* a failed call: one error, no result, nothing taken after the step that
\* failed (after one of the four early failures: no registry write, no
\* get_apis, no result assembly); mdl.serve is invoked at most once per call
FailedCallStopped ==
    \A c \in Calls :
        /\ mdl[c] # None => Len(Mdl(c).served_with) <= 1
        /\ pc[c] = "error" =>
              /\ err[c] \in EarlyFailures(c) \cup {Some(GetApisError), Some(AmenableError)}
              /\ result[c] = None
              /\ err[c] \in EarlyFailures(c) =>
                    /\ writes[c] = 0 /\ regArgs[c] = <<>>
                    /\ ~Took(c, "register") /\ ~Took(c, "get_apis")
                    /\ ~Took(c, "assemble")
              /\ err[c] = Some(GetApisError) =>
                    (LastStep(c) = "get_apis" /\ ~Took(c, "assemble"))
              /\ err[c] = Some(AmenableError) => LastStep(c) = "assemble"
              /\ err[c] = Some(ConfigurationError) =>
                    (steps[c] = <<"validate">> /\ mdl[c] = None)
              /\ err[c] = Some(ModelNotFoundError(Req(c).model)) =>
                    (LastStep(c) = "is_valid" /\ Mdl(c).served_with = <<>>)
              /\ err[c] = Some(StartupError) =>
                    (LastStep(c) = "serve" /\ Len(Mdl(c).served_with) = 1)
              /\ err[c] = Some(ServeFailedError) =>
                    (LastStep(c) = "check_url" /\ Len(Mdl(c).served_with) = 1)

\* a failed call takes no further step: it stays as it is until its frame
\* is dropped, and writes nothing to the registry
FailedCallStaysStopped ==
    \A c \in Calls :
        pc[c] = "error" =>
            \/ /\ pc'[c] = "error"
               /\ steps'[c] = steps[c] /\ mdl'[c] = mdl[c] /\ err'[c] = err[c]
               /\ result'[c] = None
               /\ writes'[c] = writes[c] /\ regArgs'[c] = regArgs[c]
            \/ /\ pc'[c] = "idle"
               /\ result'[c] = None
               /\ registry' = registry

\* C12: a failure at any step ends the call: mdl.serve is invoked at most
\* once per call, and after the range error, the not-valid error, an
\* exception out of mdl.serve or the no-URL error the call takes no further
\* step (no startup, registration, get_apis, result assembly) and returns
\* no result.  An exception out of mdl.get_apis or _is_amenable ends the
\* call in the same way, with no result.
C12_FailureIsTerminal ==
    /\ []FailedCallStopped
    /\ [][FailedCallStaysStopped]_vars

\* mdl.serve raised after its one invocation; the other call is running on
C12_Witness ==
    \E c, d \in Calls :
        /\ pc[c] = "error"
        /\ err[c] = Some(StartupError)
        /\ Len(Mdl(c).served_with) = 1
        /\ pc[d] = "done"

\* every call has its own handle, its own one startup and its own
\* registration, whatever other calls for the same identifier have done
EachCallOnItsOwn ==
    /\ \A c \in Calls :
          /\ Took(c, "construct") =>
                (mdl[c] # None /\ Mdl(c).model_id = Req(c).model)
          /\ Took(c, "serve") => Len(Mdl(c).served_with) = 1
          /\ Took(c, "register") =>
                regArgs[c] = << <<Req(c).model, Mdl(c).session_dir[1]>> >>
    /\ \A c, d \in Calls :
          (c # d /\ Took(c, "serve") /\ Took(d, "serve")
                 /\ Req(c).model = Req(d).model) =>
              Len(Mdl(c).served_with) + Len(Mdl(d).served_with) = 2
    /\ \A m \in ModelIds : registry[m] = lastReg[m]

\* the call that registers leaves its own directory in the registry
RegisteringCallWins ==
    \A c \in Calls :
        (regArgs'[c] # regArgs[c] /\ regArgs'[c] # <<>>) =>
            registry'[Req(c).model] = Some(Mdl(c).session_dir[1])

\* C13: concurrent calls for the same identifier are not deduplicated: each
\* call that gets that far has its own handle and invokes mdl.serve once
\* (two startups for two calls), each call that registers hands over its
\* own session directory, and the registry holds the directory of the call
\* that registered last.
C13_NoDeduplication ==
    /\ []EachCallOnItsOwn
    /\ [][RegisteringCallWins]_vars

\* two calls for eos1 both returned a result, each after its own startup,
\* with different session directories; the registry holds one of them
C13_Witness ==
    /\ pc["c1"] = "done" /\ pc["c2"] = "done"
    /\ Req("c1").model = "eos1" /\ Req("c2").model = "eos1"
    /\ Len(Mdl("c1").served_with) = 1 /\ Len(Mdl("c2").served_with) = 1
    /\ regArgs["c1"] = << <<"eos1", "dir1">> >>
    /\ regArgs["c2"] = << <<"eos1", "dir2">> >>
    /\ registry["eos1"] = Some("dir1")

InFlight(c) == pc[c] \notin {"idle", "done", "error"}

\* a call that ended has a result or an error, never both; a call in
\* flight has neither; only at mdl.serve does a call wait for another
\* party, and while it waits it has written nothing
OneOutcome ==
    \A c \in Calls :
        /\ pc[c] = "done" => (result[c] # None /\ err[c] = None)
        /\ pc[c] = "error" => (result[c] = None /\ err[c] # None)
        /\ InFlight(c) => (result[c] = None /\ err[c] = None)
        /\ (InFlight(c) /\ pc[c] # "serving") => ENABLED OwnStep(c)
        /\ pc[c] = "serving" =>
              /\ ~ENABLED OwnStep(c)
              /\ ENABLED StartupEnds(c)
              /\ writes[c] = 0 /\ regArgs[c] = <<>>

\* C14: provided mdl.serve eventually returns or fails, every call ends,
\* with a result or with one error and not both; mdl.serve is the only
\* place where a call waits, and while it waits there it has no result, no
\* error and no registry write.
C14_Termination ==
    /\ []OneOutcome
    /\ \A c \in Calls : InFlight(c) ~> (pc[c] \in {"done", "error"})

\* a call suspended in mdl.serve while the other has ended with an error
C14_Witness ==
    \E c, d \in Calls :
        /\ pc[c] = "serving"
        /\ Len(Mdl(c).served_with) = 1
        /\ result[c] = None /\ err[c] = None /\ writes[c] = 0
        /\ pc[d] = "error"

\* the cache flag and the source as resolution leaves them, from the
\* caller's arguments
EffectiveFlag(q) == q.local_cache_only \/ q.cache_only \/ q.enable_local_cache
EffectiveSource(q) ==
    IF q.cache_only THEN Some(CACHE_ONLY)
    ELSE IF q.cloud_cache_only THEN Some(CLOUD_ONLY)
    ELSE IF q.local_cache_only THEN Some(LOCAL_ONLY)
    ELSE None

\* C15: in every call that passed validation the handle and SetupRedis are
\* given the same cache flag, the resolved one, and the same
\* max_cache_memory_frac, and the handle is given the resolved source;
\* neither is given a value from before resolution.
C15_SameConfiguration ==
    \A c \in Calls :
        /\ mdl[c] # None =>
              /\ Took(c, "resolve")
              /\ Mdl(c).cache = EffectiveFlag(Req(c))
              /\ Mdl(c).output_source = EffectiveSource(Req(c))
              /\ Mdl(c).maxmemory = Req(c).max_cache_memory_frac
              /\ Mdl(c).preferred_port = Req(c).port
              /\ Mdl(c).model_id = Req(c).model
        /\ redis_setup[c] # None =>
              /\ Took(c, "resolve")
              /\ mdl[c] # None
              /\ redis_setup[c][1].cache = Mdl(c).cache
              /\ redis_setup[c][1].cache = EffectiveFlag(Req(c))
              /\ redis_setup[c][1].maxmemory = Mdl(c).maxmemory
              /\ redis_setup[c][1].maxmemory = Req(c).max_cache_memory_frac

\* baseline off, local-only on, fraction 0.5: both collaborators got the
\* flag on and the fraction
C15_Witness ==
    \E c \in Calls :
        /\ redis_setup[c] # None
        /\ ~Req(c).enable_local_cache /\ Req(c).local_cache_only
        /\ Req(c).max_cache_memory_frac = Some(5)
        /\ Mdl(c).cache = TRUE /\ redis_setup[c][1].cache = TRUE
        /\ Mdl(c).maxmemory = Some(5) /\ redis_setup[c][1].maxmemory = Some(5)
        /\ Mdl(c).output_source = Some(LOCAL_ONLY)

\* the result of a returned call agrees with the one registry write the
\* call made, and carries a URL
ResultAgrees(c) ==
    /\ Len(regArgs[c]) = 1
    /\ writes[c] = 1
    /\ result[c][1]["Model ID"] = regArgs[c][1][1]
    /\ result[c][1]["Session"] = Some(regArgs[c][1][2])
    /\ result[c][1]["URL"] # None

\* C16 as stated: a call returns a result iff it made exactly one
\* registry write, and the result agrees with the write and has a URL.
C16_AsStated ==
    \A c \in Calls :
        /\ pc[c] = "done" => ResultAgrees(c)
        /\ pc[c] \in {"done", "error"} =>
              (result[c] # None <=> Len(regArgs[c]) = 1)

\* C16: a call that returned a result made exactly one registry write,
\* and the result agrees with it ("Model ID" is the key written, "Session"
\* the directory written) and carries a URL; no call writes twice; a call
\* that ended without a result made no registry write, unless it ended
\* with an exception out of mdl.get_apis or _is_amenable, which come after
\* the write: then it made exactly one.
C16_ResultMatchesRegistration ==
    \A c \in Calls :
        /\ Len(regArgs[c]) <= 1
        /\ writes[c] = Len(regArgs[c])
        /\ result[c] # None <=> pc[c] = "done"
        /\ pc[c] = "done" => ResultAgrees(c)
        /\ pc[c] = "error" =>
              IF err[c] \in {Some(GetApisError), Some(AmenableError)}
              THEN /\ Len(regArgs[c]) = 1
                   /\ regArgs[c][1] = <<Mdl(c).model_id, Mdl(c).session_dir[1]>>
                   /\ registry[Mdl(c).model_id] # None
              ELSE regArgs[c] = <<>>

\* mdl.get_apis raised after the registration: the entry is in the
\* registry and the call has no result
C16_WitnessWrittenNoResult ==
    \E c \in Calls :
        /\ pc[c] = "error"
        /\ err[c] = Some(GetApisError)
        /\ result[c] = None
        /\ regArgs[c] = << <<"eos1", "dir2">> >>
        /\ registry["eos1"] = Some("dir2")

\* one call returned a result that agrees with its registry write, and
\* another call wrote its entry and then failed in _is_amenable: it has
\* written once and has no result
C16_WitnessBothOutcomes ==
    /\ pc["c1"] = "done" /\ pc["c2"] = "error"
    /\ result["c1"] # None
    /\ result["c1"][1]["Model ID"] = "eos1"
    /\ result["c1"][1]["Session"] = Some("dir1")
    /\ regArgs["c1"] = << <<"eos1", "dir1">> >>
    /\ err["c2"] = Some(AmenableError)
    /\ result["c2"] = None
    /\ regArgs["c2"] = << <<"eos2", "dir2">> >>
    /\ registry["eos2"] = Some("dir2")

\* two calls for the same identifier returned; each result carries the
\* directory that call registered, and only one of them is in the registry
C16_Witness ==
    /\ pc["c1"] = "done" /\ pc["c2"] = "done"
    /\ result["c1"][1]["Model ID"] = "eos2"
    /\ result["c2"][1]["Model ID"] = "eos2"
    /\ result["c1"][1]["Session"] = Some("dir2")
    /\ result["c2"][1]["Session"] = Some("dir1")
    /\ regArgs["c1"] = << <<"eos2", "dir2">> >>
    /\ registry["eos2"] = Some("dir1")

====
